---- MODULE Spec2Model ----
(***************************************************************************)
(* Request lifecycle of Telegram/SourceFiles/api/api_statistics.cpp:       *)
(* StatisticsRequestSender (request tracker with its sweep timer),         *)
(* Statistics (aggregate request, zoom deque), PublicForwards (paginated   *)
(* forwards), MessageStatistics (three-step orchestration) and Boosts.     *)
(*                                                                         *)
(* Execution is single-threaded and callback-driven: every action below is *)
(* one caller invocation, one transport callback (done / fail handler) or  *)
(* one timer tick, run to completion.                                      *)
(***************************************************************************)
EXTENDS Integers, Sequences, FiniteSets, TLC

\* ---------------------------------------------------------------- bounds
MaxRequests == 3    \* request ids the transport hands out
MaxConsumers == 3   \* subscriptions / caller invocations per fetcher
MaxCalls == 2       \* calls of an orchestrated, multi-step fetch
MaxCount == 2       \* counts a server response reports, 0..MaxCount

Shards == {1, 2}
\* statsDcId() answers 0 while the shard of the channel is unknown
DcIds == {0} \cup Shards
Errors == {"FLOOD_WAIT"}
Payloads == {"p1", "p2"}
NoPayload == "none"
Graphs == {"graph"}

\* the StatisticsRequestSender instances: Statistics, a PublicForwards and a
\* MessageStatistics (which owns the PublicForwards as _publicForwards)
Senders == {"statistics", "forwards", "message"}

VARIABLES
    \* --- transport (MTP::Sender / ApiWrap), shared by all fetchers
    nextId,         \* allocateRequestId(): the next id handed out
    pending,        \* requests the transport has in flight (records)
    ledger,         \* ApiWrap's registered stats requests: {<<dcId, id>>}
    \* --- StatisticsRequestSender, per instance
    _requests,      \* [sender -> map dcId -> set of ids], no entry = no key
    timerActive,    \* [sender -> BOOLEAN]  _timer.isActive()
    alive,          \* [sender -> BOOLEAN]  FALSE once destroyed
    registered,     \* history: [sender -> {<<dcId, id>>}] ever registered
    \* --- Statistics
    megagroup,      \* channel()->isMegagroup()
    _zoomDeque,     \* sequence of zoom tasks (consumer ids)
    _channelStats,
    _supergroupStats,
    nextConsumer,   \* next subscription id
    signals,        \* [consumer -> sequence of signals it received]
    zoomEnqueued,   \* history: tasks in the order requestZoom pushed them
    zoomStarted,    \* history: tasks in the order they were invoked
    \* --- PublicForwards (alone, or as MessageStatistics::_publicForwards)
    target,         \* "message" or "story": which id of _fullId is set
    _requestId,     \* [forwards |-> ..., boosts |-> ...], 0 when idle
    _lastTotal,
    lastSlice,      \* history: the slice last handed to a done callback
    reported,       \* history: the counts (fullCount) of the responses
    previousTotal,  \* history: the total of the slice delivered before
    \* --- MessageStatistics
    _firstSlice,
    lastResult,     \* history: the Data::MessageStatistics last passed to done
    \* --- Boosts
    peer,           \* "user", "broadcast" or "megagroup": _peer->asChannel()
    _boostStatus

transportVars == <<nextId, pending, ledger>>
trackerVars == <<_requests, timerActive, alive, registered>>
statisticsVars == <<megagroup, _zoomDeque, _channelStats, _supergroupStats,
                    nextConsumer, signals, zoomEnqueued, zoomStarted>>
forwardsVars == <<target, _requestId, _lastTotal, lastSlice, reported, previousTotal>>
messageVars == <<_firstSlice, lastResult>>
boostsVars == <<peer, _boostStatus>>
vars == <<transportVars, trackerVars, statisticsVars, forwardsVars,
          messageVars, boostsVars>>
notStatistics == <<forwardsVars, messageVars, boostsVars>>

Consumers == 1..MaxConsumers

\* ------------------------------------------------------------- transport
PendingIds == {r.id : r \in pending}

\* _api.pending(id)
Pending(id) == id \in PendingIds

\* the in-flight requests of one kind sent by one fetcher
InFlight(s, kinds) == {r \in pending : r.sender = s /\ r.kind \in kinds}

\* ------------------------------------------------- StatisticsRequestSender
\* _requests[dcId].emplace(id)
Emplace(m, dcId, id) ==
    IF dcId \in DOMAIN m
    THEN [m EXCEPT ![dcId] = @ \cup {id}]
    ELSE (dcId :> {id}) @@ m

\* the (dcId, id) pairs in _requests of sender s
Tracked(s) ==
    UNION {{<<d, i>> : i \in _requests[s][d]} : d \in DOMAIN _requests[s]}

EmptyMap == <<>>

\* the offset token of a page: rate, fullId, storyOffset of a
\* PublicForwardsSlice, next and gifts of a BoostsListSlice; the
\* default-constructed one is empty
EmptyToken ==
    [rate |-> 0, fullId |-> <<0, 0>>, storyOffset |-> "", next |-> "",
     gifts |-> FALSE]

\* Data::StatisticsMessageInteractionInfo, default-constructed
EmptyInfo == [viewsCount |-> 0, forwardsCount |-> 0, reactionsCount |-> 0]

\* what the handlers of a request captured: the callback to run and, for
\* the steps of MessageStatistics::request, the graphs and counters so far
Closure(cb, graphs, info) == [cb |-> cb, graphs |-> graphs, info |-> info]
NoClosure == Closure("consumer", "none", EmptyInfo)

Request(id, s, kind, who, token, closure) ==
    [id |-> id, sender |-> s, kind |-> kind, who |-> who,
     token |-> token, closure |-> closure]

\* makeRequest, lines 267-269: the timer is started when not running
TimerAfterRegister(active) == IF ~active THEN TRUE ELSE active

\* _api.request(...).send(): the transport allocates an id and holds the
\* request until it calls the done or the fail handler.  rest is what
\* stays in flight (the handler's own request is already retired).
apiRequest(rest, s, kind, who, token, closure) ==
    /\ nextId' = nextId + 1
    /\ pending' = rest \cup {Request(nextId, s, kind, who, token, closure)}

\* makeRequest(...).send()
makeRequest(rest, s, dcId, kind, who, token, closure) ==
    /\ apiRequest(rest, s, kind, who, token, closure)
    /\ IF dcId # 0
       THEN /\ ledger' = ledger \cup {<<dcId, nextId>>}
            /\ _requests' = [_requests EXCEPT ![s] = Emplace(@, dcId, nextId)]
            /\ timerActive' =
                   [timerActive EXCEPT ![s] = TimerAfterRegister(@)]
            /\ registered' = [registered EXCEPT ![s] = @ \cup {<<dcId, nextId>>}]
       ELSE UNCHANGED <<ledger, _requests, timerActive, registered>>

\* a handler that sends nothing
noRequest(rest) ==
    /\ pending' = rest
    /\ UNCHANGED <<nextId, ledger, _requests, timerActive, registered>>

\* checkRequests, line 240: an id stays tracked while the transport has it
SweepKeepsAll(id) == TRUE
SweepKeepsNone(id) == FALSE
SweepKeeps(id) == Pending(id)

\* checkRequests, lines 249-250: a shard whose set became empty is erased
ShardsKept(m) == {d \in DOMAIN m : m[d] # {}}

\* checkRequests, lines 238-254: the map after the sweep
SweptMap(m) ==
    LET kept == [d \in DOMAIN m |-> {i \in m[d] : SweepKeeps(i)}]
    IN  [d \in ShardsKept(kept) |-> kept[d]]

\* checkRequests, lines 255-257
TimerNeverCancelled(active, m) == active
TimerAfterSweep(active, m) == IF m = EmptyMap THEN FALSE ELSE active

\* the timer tick of sender s
checkRequests(s) ==
    /\ alive[s]
    /\ timerActive[s]
    /\ LET after == SweptMap(_requests[s])
           gone == Tracked(s) \ UNION {{<<d, i>> : i \in after[d]} : d \in DOMAIN after}
       IN  /\ ledger' = ledger \ gone
           /\ _requests' = [_requests EXCEPT ![s] = after]
           /\ timerActive' = [timerActive EXCEPT ![s] = TimerAfterSweep(@, after)]
    /\ UNCHANGED <<nextId, pending, alive, registered>>

\* ~StatisticsRequestSender, lines 230-234: what the destructor unregisters
TeardownPendingOnly(s) == {p \in Tracked(s) : ~Pending(p[2])}
TeardownUnregisters(s) == Tracked(s)

\* the destructor body of every sender in ss, run in one step
teardown(ss) ==
    /\ ledger' = ledger \ UNION {TeardownUnregisters(s) : s \in ss}
    /\ alive' = [s \in Senders |-> IF s \in ss THEN FALSE ELSE alive[s]]
    /\ UNCHANGED <<nextId, pending, _requests, timerActive, registered>>

\* ------------------------------------------------------------- Statistics
Signal(type, value) == [type |-> type, value |-> value]

PutNothing(c, sigs) == signals
Put(c, sigs) == [signals EXCEPT ![c] = @ \o sigs]

StatsKinds == {"broadcastStats", "megagroupStats"}

\* Statistics::request, one subscription
StatisticsRequest(dcId) ==
    /\ alive["statistics"]
    /\ nextConsumer <= MaxConsumers
    /\ nextId <= MaxRequests
    /\ makeRequest(pending, "statistics", dcId,
                   IF ~megagroup THEN "broadcastStats" ELSE "megagroupStats",
                   nextConsumer, EmptyToken, NoClosure)
    /\ nextConsumer' = nextConsumer + 1
    /\ UNCHANGED <<alive, megagroup, _zoomDeque, _channelStats,
                   _supergroupStats, signals, zoomEnqueued, zoomStarted>>
    /\ UNCHANGED notStatistics

\* the done handlers of Statistics::request, lines 286-288 and 296-300
StatisticsDone(r, payload) ==
    /\ alive["statistics"]
    /\ r \in InFlight("statistics", StatsKinds)
    /\ noRequest(pending \ {r})
    /\ IF r.kind = "broadcastStats"
       THEN /\ _channelStats' = payload
            /\ UNCHANGED _supergroupStats
       ELSE /\ _supergroupStats' = payload
            /\ UNCHANGED _channelStats
    /\ signals' = Put(r.who, <<Signal("done", NoPayload)>>)
    /\ UNCHANGED <<alive, megagroup, _zoomDeque, nextConsumer,
                   zoomEnqueued, zoomStarted>>
    /\ UNCHANGED notStatistics

\* the fail handlers of Statistics::request, lines 289-290 and 301-302
StatisticsFail(r, error) ==
    /\ alive["statistics"]
    /\ r \in InFlight("statistics", StatsKinds)
    /\ noRequest(pending \ {r})
    /\ signals' = Put(r.who, <<Signal("error", error)>>)
    /\ UNCHANGED <<alive, megagroup, _zoomDeque, _channelStats,
                   _supergroupStats, nextConsumer, zoomEnqueued, zoomStarted>>
    /\ UNCHANGED notStatistics

\* requestZoom, lines 336-338: the pushed task runs at once iff the deque
\* was empty before the push
StartsAlways(wasEmpty) == TRUE
StartsOnPush(wasEmpty) == wasEmpty

\* the done handler, lines 326-331: which task runs after the pop
BackOf(deque) == deque[Len(deque)]
FrontOf(deque) == Head(deque)

\* the done handler, line 327: pop_front
PopFront(deque) == Tail(deque)

\* _zoomDeque.front()(): the task sends its LoadAsyncGraph request
invokeZoom(rest, task, dcId) ==
    /\ nextId <= MaxRequests
    /\ makeRequest(rest, "statistics", dcId, "zoom", task, EmptyToken, NoClosure)
    /\ zoomStarted' = Append(zoomStarted, task)

\* Statistics::requestZoom, one subscription
StatisticsRequestZoom(dcId) ==
    /\ alive["statistics"]
    /\ nextConsumer <= MaxConsumers
    /\ LET wasEmpty == _zoomDeque = <<>>
           deque == Append(_zoomDeque, nextConsumer)
       IN  /\ _zoomDeque' = deque
           /\ zoomEnqueued' = Append(zoomEnqueued, nextConsumer)
           /\ IF StartsOnPush(wasEmpty)
              THEN invokeZoom(pending, FrontOf(deque), dcId)
              ELSE noRequest(pending) /\ UNCHANGED zoomStarted
    /\ nextConsumer' = nextConsumer + 1
    /\ UNCHANGED <<alive, megagroup, _channelStats, _supergroupStats, signals>>
    /\ UNCHANGED notStatistics

\* the done handler of the zoom request, lines 323-331
ZoomDone(r, graph, dcId) ==
    /\ alive["statistics"]
    /\ r \in InFlight("statistics", {"zoom"})
    /\ signals' = Put(r.who, <<Signal("next", graph), Signal("done", NoPayload)>>)
    /\ IF _zoomDeque # <<>>
       THEN LET deque == PopFront(_zoomDeque)
            IN  /\ _zoomDeque' = deque
                /\ IF deque # <<>>
                   THEN invokeZoom(pending \ {r}, FrontOf(deque), dcId)
                   ELSE noRequest(pending \ {r}) /\ UNCHANGED zoomStarted
       ELSE /\ noRequest(pending \ {r})
            /\ UNCHANGED <<_zoomDeque, zoomStarted>>
    /\ UNCHANGED <<alive, megagroup, _channelStats, _supergroupStats,
                   nextConsumer, zoomEnqueued>>
    /\ UNCHANGED notStatistics

\* the fail handler of the zoom request, lines 332-333
ZoomFail(r, error) ==
    /\ alive["statistics"]
    /\ r \in InFlight("statistics", {"zoom"})
    /\ noRequest(pending \ {r})
    /\ signals' = Put(r.who, <<Signal("error", error)>>)
    /\ UNCHANGED <<alive, megagroup, _zoomDeque, _channelStats,
                   _supergroupStats, nextConsumer, zoomEnqueued, zoomStarted>>
    /\ UNCHANGED notStatistics

\* the sweep timer of the Statistics fetcher fires
StatisticsCheckRequests ==
    /\ checkRequests("statistics")
    /\ UNCHANGED <<statisticsVars, notStatistics>>

\* the Statistics fetcher is destroyed
StatisticsDestroy ==
    /\ alive["statistics"]
    /\ teardown({"statistics"})
    /\ UNCHANGED <<statisticsVars, notStatistics>>

\* ------------------------------------------------------------------ Init
\* Data::PublicForwardsSlice, default-constructed
EmptySlice == [list |-> <<>>, total |-> 0, allLoaded |-> FALSE,
               token |-> EmptyToken]

\* no slice was delivered yet; asked is the token of the request a slice
\* answers, fullCount the count of its response, shape and nextRate the
\* constructor and the next_rate of that response
NoSlice == [list |-> <<>>, total |-> 0, allLoaded |-> FALSE,
            token |-> EmptyToken, asked |-> EmptyToken, fullCount |-> 0,
            shape |-> "none", nextRate |-> -1, delivered |-> FALSE]

\* Data::MessageStatistics; info is the counters the result was built from
Result(graphs, publicForwards, info) ==
    [messageInteractionGraph |-> graphs, reactionsByEmotionGraph |-> graphs,
     publicForwards |-> publicForwards,
     privateForwards |-> info.forwardsCount - publicForwards,
     views |-> info.viewsCount, reactions |-> info.reactionsCount,
     info |-> info]

NoResult == [delivered |-> FALSE]

NoBoostsSlice == [list |-> <<>>, multipliedTotal |-> 0, allLoaded |-> FALSE,
                  token |-> EmptyToken]

\* the state every fetcher is constructed in
Constructed ==
    /\ nextId = 1
    /\ pending = {}
    /\ ledger = {}
    /\ _requests = [s \in Senders |-> EmptyMap]
    /\ timerActive = [s \in Senders |-> FALSE]
    /\ alive = [s \in Senders |-> TRUE]
    /\ registered = [s \in Senders |-> {}]
    /\ _zoomDeque = <<>>
    /\ _channelStats = NoPayload
    /\ _supergroupStats = NoPayload
    /\ nextConsumer = 1
    /\ signals = [c \in Consumers |-> <<>>]
    /\ zoomEnqueued = <<>>
    /\ zoomStarted = <<>>
    /\ _requestId = [i \in {"forwards", "boosts"} |-> 0]
    /\ _lastTotal = 0
    /\ lastSlice = NoSlice
    /\ reported = {}
    /\ previousTotal = 0
    /\ _firstSlice = EmptySlice
    /\ lastResult = NoResult
    /\ _boostStatus =
           [overview |-> NoPayload, link |-> NoPayload, prepaidGiveaway |-> <<>>,
            firstSliceBoosts |-> NoBoostsSlice, firstSliceGifts |-> NoBoostsSlice]

\* a Statistics fetcher on a broadcast channel or on a supergroup
Init ==
    /\ Constructed
    /\ megagroup \in BOOLEAN
    /\ target = "message"
    /\ peer = IF megagroup THEN "megagroup" ELSE "broadcast"

\* -------------------------------------------- the Statistics fetcher alone
Next ==
    \/ \E dcId \in DcIds : StatisticsRequest(dcId)
    \/ \E r \in pending, payload \in Payloads : StatisticsDone(r, payload)
    \/ \E r \in pending, error \in Errors : StatisticsFail(r, error)
    \/ \E dcId \in DcIds : StatisticsRequestZoom(dcId)
    \/ \E r \in pending, graph \in Graphs, dcId \in DcIds : ZoomDone(r, graph, dcId)
    \/ \E r \in pending, error \in Errors : ZoomFail(r, error)
    \/ StatisticsCheckRequests
    \/ StatisticsDestroy

Spec == Init /\ [][Next]_vars

\* --------------------------------------------------------- PublicForwards
PageKinds == {"messageForwards", "storyForwards"}

FullIds == {<<1, 1>>, <<1, 2>>}

\* a message of a response: its id, its date and whether peerLoaded() finds
\* its peer; a forward of a story response is such a message or a story,
\* which is an MTPDstoryItem (item) or a skipped / deleted one
Forward(type, fullId, date, loaded, item) ==
    [type |-> type, fullId |-> fullId, date |-> date, loaded |-> loaded,
     item |-> item]

Messages ==
    {Forward("message", f, 1, TRUE, FALSE) : f \in FullIds}
        \cup {Forward("message", <<1, 1>>, 0, TRUE, FALSE),
              Forward("message", <<1, 1>>, 1, FALSE, FALSE)}

Stories ==
    {Forward("story", f, 1, TRUE, TRUE) : f \in FullIds}
        \cup {Forward("story", <<1, 1>>, 1, TRUE, FALSE)}

\* the lists of a response: no entry, or one
Lists(S) == {<<>>} \cup {<<x>> : x \in S}

Counts == 0..MaxCount
Rates == {0, 1, 2}
NoRate == -1
Offsets == {"a", "b"}

\* MTPmessages_Messages: messages, messagesSlice, channelMessages,
\* messagesNotModified
MessagesResponse(shape, messages, count, nextRate) ==
    [shape |-> shape, messages |-> messages, count |-> count,
     nextRate |-> nextRate]

MessagesResponses ==
    {MessagesResponse("messages", l, 0, NoRate) : l \in Lists(Messages)}
        \cup {MessagesResponse("messagesSlice", l, c, n) :
                  l \in Lists(Messages), c \in Counts, n \in Rates \cup {NoRate}}
        \cup {MessagesResponse("channelMessages", l, c, NoRate) :
                  l \in Lists(Messages), c \in Counts}
        \cup {MessagesResponse("messagesNotModified", <<>>, 0, NoRate)}

\* MTPstats_PublicForwards; an absent next_offset reads as the empty string
StoryResponses ==
    [forwards : Lists(Messages \cup Stories), count : Counts,
     nextOffset : Offsets \cup {""}]

MessageId(fullId) == [messageId |-> fullId, storyId |-> <<0, 0>>]
StoryId(fullId) == [messageId |-> <<0, 0>>, storyId |-> fullId]

\* lines 399-400 and 497-500: a message is listed when its peer is loaded
\* and its date is not zero
Listed(m) == m.loaded /\ m.date # 0

\* requestMessage, lines 393-411: process()
Process(messages) == SelectSeq(messages, Listed)

\* requestMessage, line 405: nextToken.fullId is the last listed message
LastFullId(list) ==
    IF list = <<>> THEN EmptyToken.fullId ELSE list[Len(list)].fullId

Page(list, fullCount, allLoaded, token) ==
    [list |-> list, fullCount |-> fullCount, allLoaded |-> allLoaded,
     token |-> token]

\* requestMessage, line 428: rateUpdated
RateAlwaysUpdated(nextRate, rate) == TRUE
RateUpdated(nextRate, rate) == nextRate # rate

\* requestMessage, lines 392-447: the decoded page of a response
MessagePage(token, response) ==
    LET listed == Process(response.messages)
        list == [i \in 1..Len(listed) |-> MessageId(listed[i].fullId)]
        fullId == LastFullId(listed)
        rateUpdated == /\ response.nextRate # NoRate
                       /\ RateUpdated(response.nextRate, token.rate)
    IN  CASE response.shape = "messages" ->
                 Page(list, Len(list), TRUE, [EmptyToken EXCEPT !.fullId = fullId])
          [] response.shape = "messagesSlice" ->
                 Page(list, response.count,
                      response.nextRate # NoRate /\ ~rateUpdated,
                      [EmptyToken EXCEPT
                           !.fullId = fullId,
                           !.rate = IF rateUpdated THEN response.nextRate ELSE 0])
          [] response.shape = "channelMessages" ->
                 Page(list, response.count, TRUE,
                      [EmptyToken EXCEPT !.fullId = fullId])
          [] OTHER -> Page(<<>>, 0, TRUE, EmptyToken)

\* requestStory, lines 491-515: the listed forwards
StoryList(forwards) ==
    LET kept == SelectSeq(forwards,
                    LAMBDA f : IF f.type = "message" THEN Listed(f) ELSE f.item)
    IN  [i \in 1..Len(kept) |->
            IF kept[i].type = "message"
            THEN MessageId(kept[i].fullId) ELSE StoryId(kept[i].fullId)]

\* requestStory, lines 482-515: the decoded page of a response
StoryPage(token, response) ==
    Page(StoryList(response.forwards), response.count,
         response.nextOffset = "" \/ response.nextOffset = token.storyOffset,
         [EmptyToken EXCEPT !.storyOffset = response.nextOffset])

\* lines 449 and 517: _lastTotal = std::max(_lastTotal, fullCount)
LatestCount(lastTotal, fullCount) == fullCount
RunningTotal(lastTotal, fullCount) ==
    IF lastTotal < fullCount THEN fullCount ELSE lastTotal

\* PublicForwards::request, line 362: the guard
AlwaysIdle(requestId) == TRUE
Idle(requestId) == requestId = 0

\* the fail handlers, lines 457 and 525
AfterFail(requestId) == 0

\* PublicForwards::request with requestMessage / requestStory up to send()
forwardsRequest(rest, token, dcId, who, closure) ==
    IF Idle(_requestId["forwards"])
    THEN /\ makeRequest(rest, "forwards", dcId,
                        IF target = "message"
                        THEN "messageForwards" ELSE "storyForwards",
                        who, token, closure)
         /\ _requestId' = [_requestId EXCEPT !["forwards"] = nextId]
    ELSE /\ noRequest(rest)
         /\ UNCHANGED _requestId

\* the done handlers of requestMessage / requestStory up to the call of done
forwardsDone(r, page) ==
    LET total == RunningTotal(_lastTotal, page.fullCount)
    IN  /\ _lastTotal' = total
        /\ lastSlice' = [list |-> page.list, total |-> total,
                         allLoaded |-> page.allLoaded, token |-> page.token,
                         asked |-> r.token, fullCount |-> page.fullCount,
                         shape |-> page.shape, nextRate |-> page.nextRate,
                         delivered |-> TRUE]
        /\ reported' = reported \cup {page.fullCount}
        /\ previousTotal' = lastSlice.total

Responses(r) ==
    IF r.kind = "messageForwards" THEN MessagesResponses ELSE StoryResponses

\* the decoded page, with the constructor and next_rate it was decoded from
DecodedPage(r, response) ==
    IF r.kind = "messageForwards"
    THEN MessagePage(r.token, response)
             @@ [shape |-> response.shape, nextRate |-> response.nextRate]
    ELSE StoryPage(r.token, response)
             @@ [shape |-> "publicForwards", nextRate |-> NoRate]

\* the tokens a caller passes: the empty one and the last page's
Tokens == {EmptyToken, lastSlice.token}

notForwards == <<statisticsVars, messageVars, boostsVars>>

\* statsDcId() of the channel: its shard is not known
ForwardsDcIds == {0}

\* PublicForwards::request called by an outside caller
PublicForwardsRequest(token, dcId) ==
    /\ alive["forwards"]
    /\ nextConsumer <= MaxConsumers
    /\ forwardsRequest(pending, token, dcId, nextConsumer,
                       Closure("caller", NoPayload, EmptyInfo))
    /\ nextConsumer' = nextConsumer + 1
    /\ UNCHANGED <<alive, target, _lastTotal, lastSlice, reported, previousTotal,
                   megagroup, _zoomDeque, _channelStats, _supergroupStats,
                   signals, zoomEnqueued, zoomStarted, messageVars, boostsVars>>

\* the done handler of a page an outside caller asked for
PublicForwardsDone(r, response) ==
    /\ alive["forwards"]
    /\ r \in InFlight("forwards", PageKinds)
    /\ r.closure.cb = "caller"
    /\ _requestId' = [_requestId EXCEPT !["forwards"] = 0]
    /\ forwardsDone(r, DecodedPage(r, response))
    /\ noRequest(pending \ {r})
    /\ UNCHANGED <<alive, target, notForwards>>

\* the fail handler of a page, lines 456-458 and 524-526
PublicForwardsFail(r) ==
    /\ alive["forwards"]
    /\ r \in InFlight("forwards", PageKinds)
    /\ _requestId' = [_requestId EXCEPT !["forwards"] = AfterFail(@)]
    /\ noRequest(pending \ {r})
    /\ UNCHANGED <<alive, target, _lastTotal, lastSlice, reported, previousTotal,
                   notForwards>>

PublicForwardsDestroy ==
    /\ alive["forwards"]
    /\ teardown({"forwards"})
    /\ UNCHANGED <<statisticsVars, notStatistics>>

\* a PublicForwards of a message or of a story
InitForwards ==
    /\ Constructed
    /\ megagroup = FALSE
    /\ target \in {"message", "story"}
    /\ peer = "broadcast"

NextForwards ==
    \/ \E token \in Tokens, dcId \in ForwardsDcIds : PublicForwardsRequest(token, dcId)
    \/ \E r \in pending : \E response \in Responses(r) : PublicForwardsDone(r, response)
    \/ \E r \in pending : PublicForwardsFail(r)
    \/ PublicForwardsDestroy

SpecForwards == InitForwards /\ [][NextForwards]_vars

\* ------------------------------------------------------ MessageStatistics
StepKinds == {"messageStats", "storyStats"}
LookupKinds == {"getMessages", "getStoriesByID"}

Absent == -1

\* the answer to channels.getMessages for the one id asked: its shape, the
\* type of the first message and that message's optional counters
LookupResponse(shape, type, views, forwards, reactions) ==
    [shape |-> shape, type |-> type, views |-> views, forwards |-> forwards,
     reactions |-> reactions]

\* lines 584-590: the reaction counts of a message added up; absent
\* reactions read as no count
SumOf(counts) ==
    LET sum[i \in 0..Len(counts)] ==
            IF i = 0 THEN 0 ELSE sum[i - 1] + counts[i]
    IN  sum[Len(counts)]

MessageLookupResponses ==
    {LookupResponse(shape, "message", 1, f, <<1, 1>>) :
         shape \in {"messages", "messagesSlice", "channelMessages"},
         f \in Counts \cup {Absent}}
        \cup {LookupResponse("messages", "message", Absent, Absent, <<>>),
              LookupResponse("messages", "messageEmpty", Absent, Absent, <<>>),
              LookupResponse("messages", "messageService", Absent, Absent, <<>>),
              LookupResponse("messagesNotModified", "none", Absent, Absent, <<>>)}

\* the answer to stories.getStoriesByID: a storyItem with or without views,
\* or a skipped / deleted story
StoryLookupResponses ==
    {LookupResponse("stories", "storyItem", 1, f, 2) : f \in Counts \cup {Absent}}
        \cup {LookupResponse("stories", "storyItem", Absent, Absent, Absent),
              LookupResponse("stories", "storyItemSkipped", Absent, Absent, Absent)}

OrZero(value) == IF value = Absent THEN 0 ELSE value

\* requestPrivateForwards, lines 581-616: the counters of the message
MessageInfo(response) ==
    IF response.shape # "messagesNotModified" /\ response.type = "message"
    THEN [viewsCount |-> OrZero(response.views),
          forwardsCount |-> OrZero(response.forwards),
          reactionsCount |-> SumOf(response.reactions)]
    ELSE EmptyInfo

\* requestStoryPrivateForwards, lines 634-648: the counters of the story
StoryInfo(response) ==
    IF response.type = "storyItem" /\ response.views # Absent
    THEN [viewsCount |-> response.views,
          forwardsCount |-> OrZero(response.forwards),
          reactionsCount |-> OrZero(response.reactions)]
    ELSE EmptyInfo

LookupResponses(r) ==
    IF r.kind = "getMessages" THEN MessageLookupResponses ELSE StoryLookupResponses

LookupInfo(r, response) ==
    IF r.kind = "getMessages" THEN MessageInfo(response) ELSE StoryInfo(response)

\* the first page of forwards as MessageStatistics needs it: its count
FirstPageResponses(r) ==
    IF r.kind = "messageForwards"
    THEN {MessagesResponse("channelMessages", <<>>, c, NoRate) : c \in Counts}
    ELSE {[forwards |-> <<>>, count |-> c, nextOffset |-> ""] : c \in Counts}

\* MessageStatistics::request, lines 550-552: the guard
NeverDeclines(isMegagroup) == FALSE
Declines(isMegagroup) == isMegagroup

\* MessageStatistics::request, one call
MessageStatisticsRequest(dcId) ==
    /\ alive["message"]
    /\ nextConsumer <= MaxCalls
    /\ IF Declines(megagroup)
       THEN noRequest(pending)
       ELSE makeRequest(pending, "message", dcId,
                        IF target = "story" THEN "storyStats" ELSE "messageStats",
                        nextConsumer, EmptyToken, NoClosure)
    /\ nextConsumer' = nextConsumer + 1
    /\ UNCHANGED <<alive, megagroup, _zoomDeque, _channelStats,
                   _supergroupStats, signals, zoomEnqueued, zoomStarted,
                   forwardsVars, messageVars, boostsVars>>

\* requestFirstPublicForwards, lines 553-570
requestFirstPublicForwards(r, info, dcId) ==
    /\ forwardsRequest(pending \ {r}, EmptyToken, dcId, r.who,
                       Closure("orchestrator", r.closure.graphs, info))
    /\ UNCHANGED <<alive, statisticsVars, target, _lastTotal, lastSlice,
                   reported, previousTotal, messageVars, boostsVars>>

LookupSkipped(r, graphs) ==
    /\ forwardsRequest(pending \ {r}, EmptyToken, 0, r.who,
                       Closure("orchestrator", graphs, EmptyInfo))
    /\ UNCHANGED <<alive, statisticsVars, target, _lastTotal, lastSlice,
                   reported, previousTotal, messageVars, boostsVars>>

\* requestPrivateForwards / requestStoryPrivateForwards up to send()
requestLookup(r, graphs) ==
    /\ apiRequest(pending \ {r}, "message",
                  IF r.kind = "storyStats" THEN "getStoriesByID" ELSE "getMessages",
                  r.who, EmptyToken, Closure("orchestrator", graphs, EmptyInfo))
    /\ UNCHANGED <<ledger, trackerVars, statisticsVars, forwardsVars,
                   messageVars, boostsVars>>

\* the done handlers of the stats call, lines 664-668 and 677-681
MessageStatsDone(r, graphs) ==
    /\ alive["message"]
    /\ r \in InFlight("message", StepKinds)
    /\ requestLookup(r, graphs)

MessageStatsAbort(r) ==
    /\ alive["message"]
    /\ r \in InFlight("message", StepKinds)
    /\ noRequest(pending \ {r})
    /\ UNCHANGED <<alive, statisticsVars, forwardsVars, messageVars, boostsVars>>

\* the fail handlers of the stats call, lines 669-670 and 682-683
MessageStatsFail(r) ==
    /\ alive["message"]
    /\ r \in InFlight("message", StepKinds)
    /\ requestLookup(r, NoPayload)

\* the counters as a lookup handler passes them on; fallback is history:
\* whether they are the {} of the fail handler
Counters(info, fallback) == info @@ [fallback |-> fallback]

\* the done handlers of the counter lookup, lines 580-621 and 633-653
LookupDone(r, response, dcId) ==
    /\ alive["message"]
    /\ r \in InFlight("message", LookupKinds)
    /\ requestFirstPublicForwards(r, Counters(LookupInfo(r, response), FALSE), dcId)

LookupAbort(r, dcId) ==
    /\ alive["message"]
    /\ r \in InFlight("message", LookupKinds)
    /\ noRequest(pending \ {r})
    /\ UNCHANGED <<alive, statisticsVars, forwardsVars, messageVars, boostsVars>>

\* the fail handlers of the counter lookup, lines 622-623 and 654-655
LookupFail(r, dcId) ==
    /\ alive["message"]
    /\ r \in InFlight("message", LookupKinds)
    /\ requestFirstPublicForwards(r, Counters(EmptyInfo, TRUE), dcId)

\* the done handler of the first page with the callback of lines 557-568
FirstPageDone(r, response) ==
    /\ alive["message"]
    /\ r \in InFlight("forwards", PageKinds)
    /\ r.closure.cb = "orchestrator"
    /\ _requestId' = [_requestId EXCEPT !["forwards"] = 0]
    /\ LET page == DecodedPage(r, response)
           total == RunningTotal(_lastTotal, page.fullCount)
       IN  /\ forwardsDone(r, page)
           /\ _firstSlice' = [list |-> page.list, total |-> total,
                              allLoaded |-> page.allLoaded, token |-> page.token]
           /\ lastResult' = Result(r.closure.graphs, total, r.closure.info)
                                @@ [delivered |-> TRUE, who |-> r.who]
    /\ signals' = Put(r.who, <<Signal("done", NoPayload)>>)
    /\ noRequest(pending \ {r})
    /\ UNCHANGED <<alive, target, megagroup, _zoomDeque, _channelStats,
                   _supergroupStats, nextConsumer, zoomEnqueued, zoomStarted,
                   boostsVars>>

\* the fail handler of the first page, lines 456-458 and 524-526
FirstPageFail(r) ==
    /\ alive["message"]
    /\ PublicForwardsFail(r)

\* the MessageStatistics is destroyed, and its _publicForwards with it
MessageStatisticsDestroy ==
    /\ alive["message"]
    /\ teardown({"message", "forwards"})
    /\ UNCHANGED <<statisticsVars, notStatistics>>

\* a MessageStatistics of a message or of a story
InitMessage ==
    /\ Constructed
    /\ megagroup \in BOOLEAN
    /\ target \in {"message", "story"}
    /\ peer = IF megagroup THEN "megagroup" ELSE "broadcast"

NextMessage ==
    \/ \E dcId \in ForwardsDcIds : MessageStatisticsRequest(dcId)
    \/ \E r \in pending, graphs \in Graphs : MessageStatsDone(r, graphs)
    \/ \E r \in pending : MessageStatsFail(r)
    \/ \E r \in pending, dcId \in ForwardsDcIds :
           \E response \in LookupResponses(r) : LookupDone(r, response, dcId)
    \/ \E r \in pending, dcId \in ForwardsDcIds : LookupFail(r, dcId)
    \/ \E r \in pending : \E response \in FirstPageResponses(r) : FirstPageDone(r, response)
    \/ \E r \in pending : FirstPageFail(r)
    \/ MessageStatisticsDestroy

SpecMessage == InitMessage /\ [][NextMessage]_vars

\* ----------------------------------------------------------------- Boosts
BoostItems == {"boost"}

\* MTPpremium_BoostsList: the boosts, the count (the boosts of the response
\* and those that remain) and the optional next_offset (absent reads as the
\* empty string), which the server sends while boosts remain
BoostsListResponses ==
    {[count |-> Len(l) + more, boosts |-> l,
      nextOffset |-> IF more > 0 THEN "a" ELSE ""] :
         l \in Lists(BoostItems), more \in {0, 1}}

\* MTPpremium_BoostsStatus: the counters, the link and the optional list of
\* prepaid giveaways
Prepaid(present, list) == [present |-> present, list |-> list]

BoostsStatusResponses ==
    {[overview |-> p, link |-> p, prepaid |-> g] :
         p \in Payloads,
         g \in {Prepaid(FALSE, <<>>), Prepaid(TRUE, <<>>), Prepaid(TRUE, <<"giveaway">>)}}

BoostsSliceNoGifts(gifts, response) ==
    [list |-> response.boosts,
     multipliedTotal |-> response.count,
     allLoaded |-> response.count = Len(response.boosts),
     token |-> [EmptyToken EXCEPT !.next = response.nextOffset]]

\* requestBoosts, lines 817-827: the slice of a response
BoostsSlice(gifts, response) ==
    [list |-> response.boosts,
     multipliedTotal |-> response.count,
     allLoaded |-> response.count = Len(response.boosts),
     token |-> [EmptyToken EXCEPT !.next = response.nextOffset, !.gifts = gifts]]

\* Boosts::request, lines 734-746: prepaidGiveaway is assigned only when the
\* response carries the list
PrepaidAfter(stored, prepaid) ==
    IF prepaid.present THEN prepaid.list ELSE stored

\* Boosts::requestBoosts, line 767: the guard
BoostsNeverBusy(requestId) == FALSE
BoostsBusy(requestId) == requestId # 0

\* Boosts::requestBoosts up to send(); requestId is _requestId as the
\* caller left it (the done handler has reset it, line 781)
requestBoosts(requestId, rest, token, who, closure) ==
    IF BoostsBusy(requestId)
    THEN /\ pending' = rest
         /\ UNCHANGED <<nextId, _requestId>>
    ELSE /\ apiRequest(rest, "boosts", "boostsList", who, token, closure)
         /\ _requestId' = [_requestId EXCEPT !["boosts"] = nextId]

notBoosts == <<ledger, trackerVars, megagroup, _zoomDeque, _channelStats,
               _supergroupStats, zoomEnqueued, zoomStarted, target,
               _lastTotal, lastSlice, reported, previousTotal, messageVars>>

\* Boosts::request, lines 696-699: no channel, or a supergroup
BoostsDeclinesUser(p) == p = "user"
BoostsDeclines(p) == p # "broadcast"

\* Boosts::request, one subscription
BoostsRequest ==
    /\ nextConsumer <= MaxCalls
    /\ IF BoostsDeclines(peer)
       THEN UNCHANGED <<nextId, pending>>
       ELSE apiRequest(pending, "boosts", "boostsStatus", nextConsumer,
                       EmptyToken, NoClosure)
    /\ nextConsumer' = nextConsumer + 1
    /\ UNCHANGED <<_requestId, signals, boostsVars, notBoosts>>

\* the callbacks of lines 749-755; status is history: the prepaid giveaways
\* of the status response of the fetch sequence
SliceCallback(cb, status) ==
    Closure(cb, NoPayload, EmptyInfo) @@ [status |-> status]

\* the done handler of the status call, lines 703-755
BoostsStatusDone(r, response) ==
    /\ r \in InFlight("boosts", {"boostsStatus"})
    /\ _boostStatus' = [_boostStatus EXCEPT
           !.overview = response.overview,
           !.link = response.link,
           !.prepaidGiveaway = PrepaidAfter(@, response.prepaid)]
    /\ requestBoosts(_requestId["boosts"], pending \ {r}, EmptyToken, r.who,
                     SliceCallback("firstSliceBoosts", response.prepaid))
    /\ UNCHANGED <<peer, nextConsumer, signals, notBoosts>>

\* the fail handler of the status call, lines 756-757
BoostsStatusFail(r, error) ==
    /\ r \in InFlight("boosts", {"boostsStatus"})
    /\ pending' = pending \ {r}
    /\ signals' = Put(r.who, <<Signal("error", error)>>)
    /\ UNCHANGED <<nextId, _requestId, nextConsumer, boostsVars, notBoosts>>

\* Boosts::requestBoosts called by an outside caller, for a first slice or
\* with the token of a first slice
BoostsTokens ==
    {[EmptyToken EXCEPT !.gifts = g] : g \in BOOLEAN}
        \cup {_boostStatus.firstSliceBoosts.token, _boostStatus.firstSliceGifts.token}

BoostsRequestBoosts(token) ==
    /\ nextConsumer <= MaxConsumers
    /\ requestBoosts(_requestId["boosts"], pending, token, nextConsumer,
                     Closure("caller", NoPayload, EmptyInfo))
    /\ nextConsumer' = nextConsumer + 1
    /\ UNCHANGED <<signals, boostsVars, notBoosts>>

\* the done handler of requestBoosts, lines 780-827, with the callback it
\* was given: lines 749-750, lines 751-753, or the outside caller's
BoostsListDone(r, response) ==
    /\ r \in InFlight("boosts", {"boostsList"})
    /\ LET slice == BoostsSlice(r.token.gifts, response)
       IN  CASE r.closure.cb = "firstSliceBoosts" ->
                    /\ _boostStatus' = [_boostStatus EXCEPT !.firstSliceBoosts = slice]
                    /\ requestBoosts(0, pending \ {r},
                                     [EmptyToken EXCEPT !.gifts = TRUE], r.who,
                                     SliceCallback("firstSliceGifts", r.closure.status))
                    /\ UNCHANGED signals
             [] r.closure.cb = "firstSliceGifts" ->
                    /\ _boostStatus' = [_boostStatus EXCEPT !.firstSliceGifts = slice]
                    /\ pending' = pending \ {r}
                    /\ _requestId' = [_requestId EXCEPT !["boosts"] = 0]
                    /\ signals' = Put(r.who, <<Signal("done", NoPayload)>>)
                    /\ UNCHANGED nextId
             [] OTHER ->
                    /\ pending' = pending \ {r}
                    /\ _requestId' = [_requestId EXCEPT !["boosts"] = 0]
                    /\ signals' = Put(r.who, <<Signal("slice", slice.token)>>)
                    /\ UNCHANGED <<nextId, _boostStatus>>
    /\ UNCHANGED <<peer, nextConsumer, notBoosts>>

\* the fail handler of requestBoosts, lines 828-829
BoostsListFail(r) ==
    /\ r \in InFlight("boosts", {"boostsList"})
    /\ pending' = pending \ {r}
    /\ _requestId' = [_requestId EXCEPT !["boosts"] = 0]
    /\ UNCHANGED <<nextId, nextConsumer, signals, boostsVars, notBoosts>>

\* a Boosts of a user, of a broadcast channel or of a supergroup
InitBoosts ==
    /\ Constructed
    /\ peer \in {"user", "broadcast", "megagroup"}
    /\ megagroup = (peer = "megagroup")
    /\ target = "message"

NextBoosts ==
    \/ BoostsRequest
    \/ \E r \in pending, response \in BoostsStatusResponses : BoostsStatusDone(r, response)
    \/ \E r \in pending, error \in Errors : BoostsStatusFail(r, error)
    \/ \E token \in BoostsTokens : BoostsRequestBoosts(token)
    \/ \E r \in pending, response \in BoostsListResponses : BoostsListDone(r, response)
    \/ \E r \in pending : BoostsListFail(r)

SpecBoosts == InitBoosts /\ [][NextBoosts]_vars

\* ----------- a Statistics, a MessageStatistics and a Boosts side by side
\* Every caller invocation and every handler of the three fetchers, in any
\* interleaving (the PublicForwards is the one MessageStatistics owns, of a
\* message); the responses carry one payload each, since only the requests
\* in flight are of interest here.
InitFetchers ==
    /\ Constructed
    /\ megagroup = FALSE
    /\ target = "message"
    /\ peer = "broadcast"

EmptyPages(r) == {response \in FirstPageResponses(r) : response.count = 0}

EmptyBoostsLists == {response \in BoostsListResponses :
                         response.count = 0 /\ response.boosts = <<>>}

BareStatus == {response \in BoostsStatusResponses :
                   response.overview = "p1" /\ ~response.prepaid.present}

BareLookups(r) == {response \in LookupResponses(r) :
                       response.type \in {"messageEmpty", "storyItemSkipped"}}

NextFetchers ==
    \/ \E dcId \in ForwardsDcIds : StatisticsRequest(dcId)
    \/ \E r \in pending : StatisticsDone(r, "p1")
    \/ \E r \in pending : StatisticsFail(r, "FLOOD_WAIT")
    \/ \E dcId \in ForwardsDcIds : StatisticsRequestZoom(dcId)
    \/ \E r \in pending, graph \in Graphs, dcId \in ForwardsDcIds : ZoomDone(r, graph, dcId)
    \/ \E r \in pending : ZoomFail(r, "FLOOD_WAIT")
    \/ \E dcId \in ForwardsDcIds : MessageStatisticsRequest(dcId)
    \/ \E r \in pending, graphs \in Graphs : MessageStatsDone(r, graphs)
    \/ \E r \in pending : MessageStatsFail(r)
    \/ \E r \in pending, dcId \in ForwardsDcIds :
           \E response \in BareLookups(r) : LookupDone(r, response, dcId)
    \/ \E r \in pending, dcId \in ForwardsDcIds : LookupFail(r, dcId)
    \/ \E r \in pending : \E response \in EmptyPages(r) : FirstPageDone(r, response)
    \/ \E r \in pending : FirstPageFail(r)
    \/ BoostsRequest
    \/ \E r \in pending, response \in BareStatus : BoostsStatusDone(r, response)
    \/ \E r \in pending : BoostsStatusFail(r, "FLOOD_WAIT")
    \/ \E gifts \in BOOLEAN : BoostsRequestBoosts([EmptyToken EXCEPT !.gifts = gifts])
    \/ \E r \in pending, response \in EmptyBoostsLists : BoostsListDone(r, response)
    \/ \E r \in pending : BoostsListFail(r)

SpecFetchers == InitFetchers /\ [][NextFetchers]_vars

\* ================================================================ claims
IsPrefix(a, b) == Len(a) <= Len(b) /\ a = SubSeq(b, 1, Len(a))

Terminal(c) == \E i \in 1..Len(signals[c]) : signals[c][i].type \in {"done", "error"}

ZoomInFlight == InFlight("statistics", {"zoom"})

\* C1: whatever the interleaving of requestZoom subscriptions and transport
\* completions or failures, at most one zoom (LoadAsyncGraph) request of the
\* Statistics instance is in flight.
C1_ZoomSingleFlight == Cardinality(ZoomInFlight) <= 1

\* a second task was started after the first completed, and a third one is
\* waiting behind the request in flight
C1_Witness ==
    /\ Len(zoomStarted) >= 2
    /\ Len(_zoomDeque) >= 2
    /\ Cardinality(ZoomInFlight) = 1

\* C2: zoom tasks are started in the order requestZoom enqueued them, none
\* skipped, reordered or started twice; the head of the deque is the task
\* started last, and every task started before it was popped on completion.
C2_ZoomFifo ==
    /\ IsPrefix(zoomStarted, zoomEnqueued)
    /\ _zoomDeque # <<>> =>
           /\ zoomStarted # <<>>
           /\ _zoomDeque = SubSeq(zoomEnqueued, Len(zoomStarted), Len(zoomEnqueued))
    /\ _zoomDeque = <<>> => zoomStarted = zoomEnqueued
    /\ \A i \in 1..Len(zoomStarted) :
           (i < Len(zoomStarted) \/ _zoomDeque = <<>>) =>
               /\ \A j \in 1..Len(_zoomDeque) : _zoomDeque[j] # zoomStarted[i]
               /\ signals[zoomStarted[i]] =
                      <<Signal("next", "graph"), Signal("done", NoPayload)>>

\* three tasks were enqueued and all three started, one after another
C2_Witness ==
    /\ Len(zoomEnqueued) >= 3
    /\ zoomStarted = zoomEnqueued
    /\ Cardinality(ZoomInFlight) = 1

\* C3 (as claimed): a failed zoom request still pops the head and starts the
\* next task, so a task of the deque whose predecessors have all received
\* their terminal signal has been started.
C3_FailureAdvancesQueue ==
    alive["statistics"] =>
        \A j \in 1..Len(zoomEnqueued) :
            (\A i \in 1..(j - 1) : Terminal(zoomEnqueued[i])) =>
                \E k \in 1..Len(zoomStarted) : zoomStarted[k] = zoomEnqueued[j]

\* C6: one run of checkRequests unregisters and untracks exactly the tracked
\* pairs the transport reports as not pending, keeps every pending pair
\* tracked and registered, and leaves no shard entry with an empty id set.
C6_SweepExact ==
    [][\A s \in Senders : checkRequests(s) =>
          LET stale == {p \in Tracked(s) : ~Pending(p[2])}
          IN  /\ ledger' = ledger \ stale
              /\ Tracked(s)' = Tracked(s) \ stale
              /\ Tracked(s)' \subseteq ledger'
              /\ \A d \in DOMAIN _requests'[s] : _requests'[s][d] # {}]_vars

\* a sweep dropped a whole shard and kept a pending request of another one
C6_Witness ==
    /\ alive["statistics"]
    /\ \E p \in registered["statistics"] \ ledger :
           /\ p[1] \notin DOMAIN _requests["statistics"]
           /\ \E q \in Tracked("statistics") : q[1] # p[1] /\ Pending(q[2])

\* C7: while the fetcher lives, the sweep timer runs iff the tracked set is
\* non-empty.
C7_TimerIffTracked ==
    \A s \in Senders : alive[s] => (timerActive[s] <=> _requests[s] # EmptyMap)

\* the timer was started by a registration and stopped again by a sweep
C7_Witness ==
    /\ alive["statistics"]
    /\ registered["statistics"] # {}
    /\ ~timerActive["statistics"]

\* C8: once the fetcher is destroyed, the ledger holds no registration it
\* made, pending or not.
C8_TeardownUnregistersAll ==
    \A s \in Senders : ~alive[s] => registered[s] \cap ledger = {}

\* destroyed while a registered request was pending and another one had
\* completed without being swept
C8_Witness ==
    /\ ~alive["statistics"]
    /\ \E p \in Tracked("statistics") : Pending(p[2])
    /\ \E p \in Tracked("statistics") : ~Pending(p[2])

PagesInFlight == InFlight("forwards", PageKinds)

SetMax(S) == CHOOSE x \in S : \A y \in S : y <= x

\* C9: PublicForwards is Idle (_requestId = 0, nothing outstanding) or
\* Requesting (_requestId is the one outstanding page request).  request()
\* dispatches only in Idle and moves to Requesting; called while Requesting
\* it dispatches nothing and changes no state; the done and the fail handler
\* both return to Idle.
C9_IdleRequesting ==
    /\ [](/\ _requestId["forwards"] = 0 <=> PagesInFlight = {}
          /\ \A r \in PagesInFlight :
                 PagesInFlight = {r} /\ _requestId["forwards"] = r.id)
    /\ [][/\ (nextConsumer' # nextConsumer /\ PagesInFlight # {}) =>
                 UNCHANGED <<transportVars, trackerVars, forwardsVars,
                             messageVars>>
          /\ (nextConsumer' # nextConsumer /\ PagesInFlight = {}) =>
                 /\ Cardinality(PagesInFlight') = 1
                 /\ nextId' = nextId + 1
          /\ (\E r \in PagesInFlight : r \notin pending') =>
                 /\ PagesInFlight' = {}
                 /\ _requestId'["forwards"] = 0]_vars

\* a call was rejected while a page was outstanding, the page failed or
\* completed, and a later call was accepted
C9_Witness ==
    /\ alive["forwards"]
    /\ nextId = 3
    /\ nextConsumer = 4
    /\ PagesInFlight # {}

\* C10: the total of every delivered slice is the maximum of the counts
\* reported so far, and it is not below the total of the slice before.
C10_RunningTotal ==
    lastSlice.delivered =>
        /\ lastSlice.total = SetMax(reported)
        /\ lastSlice.total = _lastTotal
        /\ previousTotal <= lastSlice.total

\* a later response reported a smaller count than an earlier one
C10_Witness ==
    /\ lastSlice.delivered
    /\ lastSlice.fullCount < previousTotal
    /\ lastSlice.total = previousTotal

\* C4 (as claimed): on a broadcast channel every request(done) call whose
\* remote steps have all been answered had its done callback invoked
\* exactly once.
C4_DoneExactlyOnce ==
    (alive["message"] /\ ~megagroup) =>
        \A c \in 1..(nextConsumer - 1) :
            (\A r \in pending : r.who # c) => Len(signals[c]) = 1

BoostsListsInFlight == InFlight("boosts", {"boostsList"})

\* C5 (as claimed): of each kind (aggregate statistics, zoom, page of public
\* forwards, message / story statistics, boosts list) a fetcher has at most
\* one request in flight.
C5_OneInFlightPerKind ==
    /\ Cardinality(InFlight("statistics", StatsKinds)) <= 1
    /\ Cardinality(ZoomInFlight) <= 1
    /\ Cardinality(PagesInFlight) <= 1
    /\ Cardinality(InFlight("message", StepKinds)) <= 1
    /\ Cardinality(BoostsListsInFlight) <= 1

\* C5 (amended): of the kinds with a guard (zoom: the deque; page of public
\* forwards and boosts list: _requestId) a fetcher has at most one request
\* in flight.
C5_GuardedKindsSingleFlight ==
    /\ Cardinality(ZoomInFlight) <= 1
    /\ Cardinality(PagesInFlight) <= 1
    /\ Cardinality(BoostsListsInFlight) <= 1

\* a zoom request is in flight with a second task waiting behind it, while a
\* boosts list is in flight
C5_Witness ==
    /\ Cardinality(ZoomInFlight) = 1
    /\ Len(_zoomDeque) = 2
    /\ Cardinality(BoostsListsInFlight) = 1

\* C11: a delivered message page has allLoaded exactly when its response was
\* a full list, a channel-scoped list or not-modified, or a partial slice
\* whose next_rate is present and equals the rate of the request's token.
C11_AllLoadedMessagePage ==
    (lastSlice.delivered /\ lastSlice.shape # "publicForwards") =>
        (lastSlice.allLoaded <=>
            \/ lastSlice.shape \in {"messages", "channelMessages", "messagesNotModified"}
            \/ /\ lastSlice.shape = "messagesSlice"
               /\ lastSlice.nextRate # NoRate
               /\ lastSlice.nextRate = lastSlice.asked.rate)

\* a partial slice answered the token of an earlier page with that token's
\* own rate
C11_Witness ==
    /\ lastSlice.delivered
    /\ lastSlice.shape = "messagesSlice"
    /\ lastSlice.asked.rate # 0
    /\ lastSlice.nextRate = lastSlice.asked.rate
    /\ lastSlice.allLoaded

\* the requests of a Boosts::request fetch sequence: the status call and the
\* two first slices
ChainCallbacks == {"consumer", "firstSliceBoosts", "firstSliceGifts"}

TerminalCount(c) ==
    Cardinality({i \in 1..Len(signals[c]) : signals[c][i].type \in {"done", "error"}})

\* C12 (as claimed): no subscriber of Boosts::request receives two terminal
\* signals, and whenever a request of its fetch sequence is answered, the
\* subscriber has its terminal signal or the next request of the sequence is
\* in flight.
C12_OneTerminalSignal ==
    /\ [](\A c \in Consumers : TerminalCount(c) <= 1)
    /\ [][\A r \in InFlight("boosts", {"boostsStatus", "boostsList"}) :
              (r.closure.cb \in ChainCallbacks /\ r \notin pending') =>
                  \/ TerminalCount(r.who)' = 1
                  \/ \E q \in pending' : q.who = r.who /\ q.closure.cb \in ChainCallbacks]_vars

\* C13: _requestId is set exactly while the single boosts-list request is in
\* flight; a requestBoosts call made meanwhile dispatches nothing and
\* changes nothing; on a channel a call made while idle dispatches one
\* request; when the outstanding request is answered it is retired and
\* _requestId is 0 unless the next one was dispatched by the callback.
C13_RequestBoostsGuard ==
    /\ [](/\ _requestId["boosts"] = 0 <=> BoostsListsInFlight = {}
          /\ \A r \in BoostsListsInFlight :
                 BoostsListsInFlight = {r} /\ _requestId["boosts"] = r.id)
    /\ [][LET called == nextConsumer' # nextConsumer
              new == pending' \ pending
              subscribed == \E q \in new : q.kind = "boostsStatus"
          IN  /\ (called /\ ~subscribed /\ BoostsListsInFlight # {}) =>
                     UNCHANGED <<transportVars, _requestId, signals, boostsVars>>
              /\ (called /\ ~subscribed /\ BoostsListsInFlight = {}
                         /\ peer = "broadcast") =>
                     /\ Cardinality(BoostsListsInFlight') = 1
                     /\ nextId' = nextId + 1
              /\ \A r \in BoostsListsInFlight : r \notin pending' =>
                     /\ BoostsListsInFlight' \cap BoostsListsInFlight = {}
                     /\ BoostsListsInFlight' = {} => _requestId'["boosts"] = 0]_vars

\* two requestBoosts calls of which the second was rejected, and after the
\* first was answered a third is in flight
C13_Witness ==
    /\ peer = "broadcast"
    /\ nextConsumer = 4
    /\ \A c \in Consumers : TerminalCount(c) = 0
    /\ \E r \in BoostsListsInFlight : r.id = 2 /\ r.closure.cb = "caller"

\* C14: a subscription to Statistics::request dispatches exactly one call,
\* broadcast stats unless the channel is a supergroup and megagroup stats
\* otherwise; when that call is answered its subscriber receives exactly one
\* signal and no call is sent: done, with the other snapshot untouched, or
\* one of the transport's errors, with both snapshots untouched.
C14_OneCallOneSignal ==
    /\ [](\A c \in Consumers : TerminalCount(c) <= 1)
    /\ [][/\ (nextConsumer' # nextConsumer /\ zoomEnqueued' = zoomEnqueued) =>
                 /\ pending \subseteq pending'
                 /\ \E q \in pending' \ pending :
                        /\ pending' \ pending = {q}
                        /\ q.who = nextConsumer
                        /\ q.kind = IF megagroup THEN "megagroupStats"
                                                 ELSE "broadcastStats"
          /\ \A r \in InFlight("statistics", StatsKinds) :
                 (r \notin pending' /\ alive'["statistics"]) =>
                     /\ pending' = pending \ {r}
                     /\ nextId' = nextId
                     /\ \E sig \in {Signal("done", NoPayload)}
                                       \cup {Signal("error", e) : e \in Errors} :
                            /\ signals' = [signals EXCEPT ![r.who] = @ \o <<sig>>]
                            /\ sig.type = "error" =>
                                   UNCHANGED <<_channelStats, _supergroupStats>>
                            /\ sig.type = "done" =>
                                   IF r.kind = "broadcastStats"
                                   THEN /\ _channelStats' \in Payloads
                                        /\ UNCHANGED _supergroupStats
                                   ELSE /\ _supergroupStats' \in Payloads
                                        /\ UNCHANGED _channelStats]_vars

\* a later subscription was answered with an error and the snapshot of the
\* earlier one is still stored
C14_Witness ==
    /\ ~megagroup
    /\ signals[1] = <<Signal("done", NoPayload)>>
    /\ signals[2] = <<Signal("error", "FLOOD_WAIT")>>
    /\ _channelStats = "p2"

\* C15: on a supergroup a MessageStatistics::request call changes nothing
\* but the count of calls made: no request is ever in flight, no done
\* callback ran and no slice or result was stored.
C15_MegagroupDeclined ==
    /\ [](megagroup =>
              /\ InFlight("message", StepKinds \cup LookupKinds) = {}
              /\ PagesInFlight = {}
              /\ nextId = 1
              /\ \A c \in Consumers : signals[c] = <<>>
              /\ lastResult = NoResult
              /\ _firstSlice = EmptySlice)
    /\ [][(megagroup /\ nextConsumer' # nextConsumer) =>
              UNCHANGED <<transportVars, trackerVars, forwardsVars, messageVars,
                          boostsVars, signals, _zoomDeque, _channelStats,
                          _supergroupStats>>]_vars

\* two request() calls were made on a supergroup
C15_Witness == megagroup /\ alive["message"] /\ nextConsumer = 3 /\ pending = {}

\* C20: on a peer without a channel or with a supergroup no status call and
\* no first slice of a fetch sequence is ever in flight, no subscriber is
\* signalled and the stored boost status stays as constructed.
C20_NoChannelDeclined ==
    peer # "broadcast" =>
        /\ InFlight("boosts", {"boostsStatus"}) = {}
        /\ \A r \in BoostsListsInFlight : r.closure.cb = "caller"
        /\ \A c \in Consumers : TerminalCount(c) = 0
        /\ _boostStatus.overview = NoPayload
        /\ _boostStatus.link = NoPayload
        /\ _boostStatus.prepaidGiveaway = <<>>
        /\ _boostStatus.firstSliceBoosts = NoBoostsSlice
        /\ _boostStatus.firstSliceGifts = NoBoostsSlice

\* two subscriptions on a supergroup: no request id was handed out
C20_Witness == peer = "megagroup" /\ nextConsumer = 3 /\ nextId = 1

\* the subscriber c was signalled done in this step
SignalledDone(c) ==
    /\ Len(signals'[c]) = Len(signals[c]) + 1
    /\ signals'[c][Len(signals'[c])].type = "done"

\* C16: a subscriber of Boosts::request has at most one request of its
\* fetch sequence in flight; the non-gift list is dispatched in the step
\* that retires the status call and stores overview and link, the gift list
\* in the step that retires the non-gift list and stores firstSliceBoosts,
\* and done is signalled in the step that retires the gift list and stores
\* firstSliceGifts.
C16_BoostsSequence ==
    /\ [](\A c \in Consumers :
              Cardinality({r \in pending : /\ r.sender = "boosts"
                                           /\ r.who = c
                                           /\ r.closure.cb \in ChainCallbacks}) <= 1)
    /\ [][LET new == {q \in pending' \ pending : q.sender = "boosts"}
              Slices(gifts) == {BoostsSlice(gifts, response) :
                                    response \in BoostsListResponses}
          IN  /\ \A q \in new : q.closure.cb = "firstSliceBoosts" =>
                     /\ q.kind = "boostsList" /\ ~q.token.gifts
                     /\ \E r \in InFlight("boosts", {"boostsStatus"}) :
                            r.who = q.who /\ r \notin pending'
                     /\ _boostStatus'.overview \in Payloads
                     /\ _boostStatus'.link \in Payloads
              /\ \A q \in new : q.closure.cb = "firstSliceGifts" =>
                     /\ q.kind = "boostsList" /\ q.token.gifts
                     /\ \E r \in BoostsListsInFlight :
                            /\ r.closure.cb = "firstSliceBoosts"
                            /\ r.who = q.who /\ r \notin pending'
                     /\ _boostStatus'.firstSliceBoosts \in Slices(FALSE)
                     /\ _boostStatus'.overview \in Payloads
              /\ \A c \in Consumers : SignalledDone(c) =>
                     /\ \E r \in BoostsListsInFlight :
                            /\ r.closure.cb = "firstSliceGifts"
                            /\ r.who = c /\ r \notin pending'
                     /\ new = {}
                     /\ _boostStatus'.firstSliceGifts \in Slices(TRUE)
                     /\ _boostStatus'.firstSliceGifts.token.gifts
                     /\ _boostStatus.firstSliceBoosts \in Slices(FALSE)
                     /\ _boostStatus.overview \in Payloads
                     /\ _boostStatus.link \in Payloads]_vars

\* a fetch sequence has completed with a boost in its first slice
C16_Witness ==
    /\ signals[1] = <<Signal("done", NoPayload)>>
    /\ _boostStatus.overview \in Payloads
    /\ _boostStatus.firstSliceBoosts.list # <<>>
    /\ _boostStatus.firstSliceGifts.token.gifts

\* the counter lookup that follows a stats call
LookupAfter(r) == IF r.kind = "storyStats" THEN "getStoriesByID" ELSE "getMessages"

\* C17: a request() call has at most one request in flight; its stats call
\* is dispatched by the call itself, its counter lookup in the step that
\* retires the stats call, its first page, with the empty token, in the step
\* that retires the lookup, and done runs in the step that retires the page,
\* with the page stored as _firstSlice and its total in the result.
C17_MessageSequence ==
    /\ [](\A c \in Consumers : Cardinality({r \in pending : r.who = c}) <= 1)
    /\ [][/\ \A q \in pending' \ pending :
                 \/ /\ q.kind = IF target = "story" THEN "storyStats" ELSE "messageStats"
                    /\ nextConsumer' = nextConsumer + 1
                    /\ q.who = nextConsumer
                 \/ /\ q.kind \in LookupKinds
                    /\ \E r \in InFlight("message", StepKinds) :
                           /\ r.who = q.who /\ r \notin pending'
                           /\ q.kind = LookupAfter(r)
                 \/ /\ q.kind = IF target = "story" THEN "storyForwards"
                                                    ELSE "messageForwards"
                    /\ q.token = EmptyToken
                    /\ \E r \in InFlight("message", LookupKinds) :
                           r.who = q.who /\ r \notin pending'
          /\ \A c \in Consumers : SignalledDone(c) =>
                 /\ \E r \in PagesInFlight : r.who = c /\ r \notin pending'
                 /\ lastSlice'.delivered
                 /\ _firstSlice' = [list |-> lastSlice'.list,
                                    total |-> lastSlice'.total,
                                    allLoaded |-> lastSlice'.allLoaded,
                                    token |-> lastSlice'.token]
                 /\ lastResult'.who = c
                 /\ lastResult'.publicForwards = _firstSlice'.total]_vars

\* the request() call of a story has run its three steps
C17_Witness ==
    /\ target = "story"
    /\ signals[1] = <<Signal("done", NoPayload)>>
    /\ lastResult.delivered
    /\ lastResult.who = 1
    /\ _firstSlice.total = MaxCount

\* C18: the step that retires a counter lookup, answered or failed,
\* dispatches the first page with the empty token and the graphs of the
\* stats call (unless a page of an overlapping call is outstanding); a
\* result built after a failed lookup has zero views, zero reactions and
\* public and private forwards that add up to zero.
C18_LookupFallback ==
    /\ [][\A r \in InFlight("message", LookupKinds) :
              (r \notin pending' /\ PagesInFlight = {}) =>
                  \E q \in pending' \ pending :
                      /\ q.kind \in PageKinds
                      /\ q.who = r.who
                      /\ q.token = EmptyToken
                      /\ q.closure.graphs = r.closure.graphs]_vars
    /\ [](\A q \in PagesInFlight :
              q.closure.info.fallback =>
                  /\ q.closure.info.viewsCount = 0
                  /\ q.closure.info.reactionsCount = 0
                  /\ q.closure.info.forwardsCount = 0)
    /\ []((lastResult.delivered /\ lastResult.info.fallback) =>
              /\ lastResult.views = 0
              /\ lastResult.reactions = 0
              /\ lastResult.publicForwards + lastResult.privateForwards = 0)

\* the lookup failed after the stats call had succeeded, and the result was
\* delivered with the forwards of the first page
C18_Witness ==
    /\ lastResult.delivered
    /\ lastResult.info.fallback
    /\ lastResult.messageInteractionGraph \in Graphs
    /\ lastResult.publicForwards = MaxCount

\* C19 (as claimed): no counter lookup and no page is in flight for a call
\* whose stats call failed, and no result is delivered without the graphs
\* of a successful stats call.
C19_LookupOnlyAfterSuccess ==
    /\ \A r \in InFlight("message", LookupKinds) \cup PagesInFlight :
           r.closure.graphs # NoPayload
    /\ lastResult.delivered => lastResult.messageInteractionGraph # NoPayload

\* C19 (amended): the step that retires a stats call, answered or failed,
\* dispatches the counter lookup of the same call; after a failure the
\* lookup carries empty graphs, and the result delivered carries the graphs
\* the lookup carried.
C19_LookupAfterEitherOutcome ==
    /\ [][\A r \in InFlight("message", StepKinds) :
              r \notin pending' =>
                  \E q \in pending' \ pending :
                      /\ q.kind = LookupAfter(r)
                      /\ q.who = r.who
                      /\ q.closure.graphs \in Graphs \cup {NoPayload}]_vars
    /\ [](lastResult.delivered =>
              /\ lastResult.messageInteractionGraph \in Graphs \cup {NoPayload}
              /\ lastResult.reactionsByEmotionGraph = lastResult.messageInteractionGraph)

\* the stats call failed, the lookup was answered with counters, and the
\* result was delivered with empty graphs and those counters
C19_Witness ==
    /\ lastResult.delivered
    /\ lastResult.messageInteractionGraph = NoPayload
    /\ ~lastResult.info.fallback
    /\ lastResult.views = 1

\* C21: while a sender lives, the pairs it registered that are still in the
\* ledger are exactly the pairs it tracks, so a sweep or the destructor
\* unregisters only pairs that are still registered and a pair a sweep
\* dropped is not unregistered again; a pair whose request is pending is
\* still registered; once the sender is destroyed none of its pairs is
\* registered.
C21_UnregisteredExactlyOnce ==
    \A s \in Senders :
        /\ Tracked(s) \subseteq registered[s]
        /\ alive[s] =>
               /\ ledger \cap registered[s] = Tracked(s)
               /\ \A p \in registered[s] : Pending(p[2]) => p \in ledger
        /\ ~alive[s] =>
               /\ ledger \cap registered[s] = {}
               /\ \A p \in registered[s] \ Tracked(s) : ~Pending(p[2])

\* destroyed after a sweep had unregistered one pair, while the request of
\* another pair was pending
C21_Witness ==
    /\ ~alive["statistics"]
    /\ registered["statistics"] \ Tracked("statistics") # {}
    /\ \E p \in Tracked("statistics") : Pending(p[2])

\* C22 (as claimed): a delivered slice that is not allLoaded carries a token
\* that differs from the token its page was asked with.
C22_TokenAdvances ==
    (lastSlice.delivered /\ ~lastSlice.allLoaded) =>
        lastSlice.token # lastSlice.asked

\* C23 (as claimed): a delivered result has privateForwards >= 0, and its
\* public and private forwards add up to the forwards count of the lookup.
C23_ForwardsSplit ==
    lastResult.delivered =>
        /\ lastResult.privateForwards >= 0
        /\ lastResult.publicForwards + lastResult.privateForwards
               = lastResult.info.forwardsCount

\* C24 (as claimed): when a fetch sequence signals done, the stored prepaid
\* giveaways are the list of its own status response, and empty when that
\* response carried none.
C24_StatusOfThatFetch ==
    [][\A r \in BoostsListsInFlight :
           (r.closure.cb = "firstSliceGifts" /\ SignalledDone(r.who)) =>
               _boostStatus'.prepaidGiveaway =
                   IF r.closure.status.present THEN r.closure.status.list
                                               ELSE <<>>]_vars
====
